---- MODULE Spec2Model ----
(***************************************************************************)
(* A model of ast_import_analyzer: the syntax-tree visitor that extracts   *)
(* a file's imports and definitions, and LinterManager, which indexes the  *)
(* files under a root and checks every recorded import.                    *)
(*                                                                         *)
(* Representation.  A Python str that the code splits or joins is a        *)
(* sequence of tokens: identifiers and the separators "." and "/".  A      *)
(* pathlib.Path is the sequence of its components.  A file's text is an    *)
(* identifier of an entry of Source, which is either unparseable or a      *)
(* syntax tree (a sequence of statement nodes).                            *)
(***************************************************************************)
EXTENDS Integers, Sequences, FiniteSets, TLC

(***************************************************************************)
(* str operations                                                          *)
(***************************************************************************)

\* sep.join(parts): the parts with the separator token between them.
RECURSIVE Join(_, _)
Join(parts, sep) ==
    IF parts = <<>> THEN <<>>
    ELSE IF Len(parts) = 1 THEN <<parts[1]>>
    ELSE <<parts[1], sep>> \o Join(Tail(parts), sep)

\* One field of s.split(sep): the tokens before the first separator, joined
\* into one identifier; the empty str "" when there are none.
RECURSIVE FirstField(_, _)
FirstField(s, sep) ==
    IF s = <<>> \/ s[1] = sep THEN ""
    ELSE s[1] \o FirstField(Tail(s), sep)

\* What follows the first separator of s (s has one).
RECURSIVE AfterFirstSep(_, _)
AfterFirstSep(s, sep) ==
    IF s[1] = sep THEN Tail(s) ELSE AfterFirstSep(Tail(s), sep)

\* s.split(sep): never empty, [""] for the empty str.
RECURSIVE Split(_, _)
Split(s, sep) ==
    IF \E i \in 1..Len(s) : s[i] = sep
    THEN <<FirstField(s, sep)>> \o Split(AfterFirstSep(s, sep), sep)
    ELSE <<FirstField(s, sep)>>

\* parts[:-1]
AllButLast(parts) == SubSeq(parts, 1, Len(parts) - 1)

\* parts[-1]
Last(parts) == parts[Len(parts)]

\* The index of the last separator of s, 0 when s has none.
LastSepIndex(s, sep) ==
    IF \E i \in 1..Len(s) : s[i] = sep
    THEN CHOOSE i \in 1..Len(s) :
            /\ s[i] = sep
            /\ \A j \in (i + 1)..Len(s) : s[j] # sep
    ELSE 0

\* s.rsplit(".", 1) of a str that holds a ".": <<head, tail>>.
RSplit1(s) ==
    LET i == LastSepIndex(s, ".")
    IN  <<SubSeq(s, 1, i - 1), SubSeq(s, i + 1, Len(s))>>

(***************************************************************************)
(* pathlib.Path                                                            *)
(***************************************************************************)

\* Path / str: the str's components, split at "/", are appended; empty
\* components are dropped, as pathlib does.
PathDiv(path, s) ==
    LET comps == Split(s, "/")
    IN  path \o SelectSeq(comps, LAMBDA c : c # "")

(***************************************************************************)
(* Syntax trees.  A statement node carries every field a visitor method    *)
(* reads; fields a node kind does not have are empty.  body holds the      *)
(* child statements that generic_visit descends into.                      *)
(***************************************************************************)

\* level is the number of leading dots of a from-import, 0 elsewhere.
Node(kind, names, module, targets, name, body) ==
    [kind |-> kind, names |-> names, module |-> module, level |-> 0,
     targets |-> targets, name |-> name, body |-> body]

\* import a.b, c      (each alias name is a dotted str)
ImportNode(names) == Node("Import", names, <<>>, <<>>, "", <<>>)
\* from module import n1, n2   (module is <<>> when the source names none)
ImportFromNode(module, names) == Node("ImportFrom", names, module, <<>>, "", <<>>)
\* from ..module import n1, n2   (level dots; the module is what follows them)
RelativeImportFromNode(level, module, names) ==
    [ImportFromNode(module, names) EXCEPT !.level = level]
\* t1 = t2 = value
AssignNode(targets) == Node("Assign", <<>>, <<>>, targets, "", <<>>)
FunctionDefNode(name, body) == Node("FunctionDef", <<>>, <<>>, <<>>, name, body)
AsyncFunctionDefNode(name, body) == Node("AsyncFunctionDef", <<>>, <<>>, <<>>, name, body)
ClassDefNode(name, body) == Node("ClassDef", <<>>, <<>>, <<>>, name, body)
\* any other statement (if, while, with, annotated assignment, expression)
OtherNode(body) == Node("Other", <<>>, <<>>, <<>>, "", body)

\* Assignment targets.
NameTarget(id) == [kind |-> "Name", id |-> id, elts |-> <<>>]
\* a, b = ...      (ast.Tuple)
TupleTarget(elts) == [kind |-> "Tuple", id |-> "", elts |-> elts]
\* [a, b] = ...    (ast.List)
ListTarget(elts) == [kind |-> "List", id |-> "", elts |-> elts]
AttributeTarget == [kind |-> "Attribute", id |-> "", elts |-> <<>>]
SubscriptTarget == [kind |-> "Subscript", id |-> "", elts |-> <<>>]

\* The elements of a sequence.
Range(s) == {s[i] : i \in 1..Len(s)}

(***************************************************************************)
(* ImportsVisitor                                                          *)
(***************************************************************************)

NoFacts == [imported_modules |-> {}, module_defs |-> {}]

Merge(a, b) ==
    [imported_modules |-> a.imported_modules \cup b.imported_modules,
     module_defs |-> a.module_defs \cup b.module_defs]

\* visit_Import that also records the alias names as defined names.
visit_Import_binds(node) ==
    [imported_modules |-> Range(node.names), module_defs |-> Range(node.names)]

\* visit_Import: every alias name, verbatim.
visit_Import(node) ==
    [imported_modules |-> Range(node.names), module_defs |-> {}]

\* The star recorded like any other name: module.* .
ImportFromPath_star_as_name(module, name) ==
    IF module # <<>> THEN {module \o <<".", name>>} ELSE {<<name>>}

\* The path visit_ImportFrom records for one alias: a set of at most one.
ImportFromPath(module, name) ==
    IF name = "*"
    THEN IF module # <<>> THEN {module} ELSE {}
    ELSE IF module # <<>> THEN {module \o <<".", name>>}
    ELSE {<<name>>}

\* visit_ImportFrom: node.module or "", then one path per alias.
visit_ImportFrom(node) ==
    [imported_modules |->
        UNION {ImportFromPath(node.module, n) : n \in Range(node.names)},
     module_defs |-> {}]

\* The names one assignment target defines.
TargetNames(target) ==
    IF target.kind = "Name" THEN {target.id}
    ELSE IF target.kind = "Tuple"
    THEN {e.id : e \in {x \in Range(target.elts) : x.kind = "Name"}}
    ELSE {}

\* visit_Assign
visit_Assign(node) ==
    [imported_modules |-> {},
     module_defs |-> UNION {TargetNames(t) : t \in Range(node.targets)}]

\* visit_FunctionDef: the function's name.
visit_FunctionDef(node) ==
    [imported_modules |-> {}, module_defs |-> {node.name}]

\* visit_AsyncFunctionDef: the function's name.
visit_AsyncFunctionDef(node) ==
    [imported_modules |-> {}, module_defs |-> {node.name}]

\* visit_ClassDef: the class's name.
visit_ClassDef(node) ==
    [imported_modules |-> {}, module_defs |-> {node.name}]

\* NodeVisitor.visit: dispatch on the node kind, then generic_visit over the
\* children; a kind without a visit_ method only descends.
\* What the visit_ method of the node's kind adds, before it descends.
visitor(node) ==
    CASE node.kind = "Import" -> visit_Import(node)
      [] node.kind = "ImportFrom" -> visit_ImportFrom(node)
      [] node.kind = "Assign" -> visit_Assign(node)
      [] node.kind = "FunctionDef" -> visit_FunctionDef(node)
      [] node.kind = "AsyncFunctionDef" -> visit_AsyncFunctionDef(node)
      [] node.kind = "ClassDef" -> visit_ClassDef(node)
      [] OTHER -> NoFacts

\* generic_visit with the descent into class bodies left out.
skip_class_bodies(node) ==
    IF node.kind = "ClassDef" THEN <<>> ELSE node.body

\* The statements generic_visit(node) goes on to visit: every visit_ method
\* ends with it, and a kind without a method is visited by it.
child_nodes(node) == node.body

RECURSIVE visit(_)
RECURSIVE generic_visit(_)
visit(node) == Merge(visitor(node), generic_visit(child_nodes(node)))

generic_visit(body) ==
    IF body = <<>> THEN NoFacts
    ELSE Merge(visit(body[1]), generic_visit(Tail(body)))

(***************************************************************************)
(* The texts a file can hold.  ast.parse either raises SyntaxError, or the *)
(* read fails (text that is not UTF-8), or it yields the tree.             *)
(***************************************************************************)

\* The dotted str of a sequence of identifiers: "pkg.mod.foo".
Dotted(segments) == Join(segments, ".")

SourceIds ==
    {"syntax_error", "not_utf8", "empty", "import_foo", "import_bar",
     "import_itertools", "import_helper", "import_os_and_bar",
     "import_build_lib", "import_star", "import_os_and_helper", "def_foo",
     "def_other"}

\* read_text + ast.parse of a text: the outcome and, when parsed, the tree.
Source(id) ==
    CASE id = "syntax_error" -> [outcome |-> "SyntaxError", tree |-> <<>>]
      [] id = "not_utf8" -> [outcome |-> "UnicodeDecodeError", tree |-> <<>>]
      [] id = "empty" -> [outcome |-> "tree", tree |-> <<>>]
      \* from pkg.mod import foo
      [] id = "import_foo" -> [outcome |-> "tree", tree |->
            <<ImportFromNode(Dotted(<<"pkg", "mod">>), <<"foo">>)>>]
      \* from pkg.mod import bar
      [] id = "import_bar" -> [outcome |-> "tree", tree |->
            <<ImportFromNode(Dotted(<<"pkg", "mod">>), <<"bar">>)>>]
      \* import itertools.count_nonexistent_xyz
      [] id = "import_itertools" -> [outcome |-> "tree", tree |->
            <<ImportNode(<<Dotted(<<"itertools", "count_nonexistent_xyz">>)>>)>>]
      \* import helper / def main(): from . import helper
      [] id = "import_helper" -> [outcome |-> "tree", tree |->
            <<ImportNode(<<Dotted(<<"helper">>)>>),
              FunctionDefNode("main",
                  <<RelativeImportFromNode(1, <<>>, <<"helper">>)>>)>>]
      \* import os / from pkg.mod import bar
      [] id = "import_os_and_bar" -> [outcome |-> "tree", tree |->
            <<ImportNode(<<Dotted(<<"os">>)>>),
              ImportFromNode(Dotted(<<"pkg", "mod">>), <<"bar">>)>>]
      \* import build.lib
      [] id = "import_build_lib" -> [outcome |-> "tree", tree |->
            <<ImportNode(<<Dotted(<<"build", "lib">>)>>)>>]
      \* from pkg.mod import * / from . import *
      [] id = "import_star" -> [outcome |-> "tree", tree |->
            <<ImportFromNode(Dotted(<<"pkg", "mod">>), <<"*">>),
              RelativeImportFromNode(1, <<>>, <<"*">>)>>]
      \* import os / import helper
      [] id = "import_os_and_helper" -> [outcome |-> "tree", tree |->
            <<ImportNode(<<Dotted(<<"os">>)>>),
              ImportNode(<<Dotted(<<"helper">>)>>)>>]
      \* def foo(): ... / class K: def method(self): ... / a, b = 1, 2
      [] id = "def_foo" -> [outcome |-> "tree", tree |->
            <<FunctionDefNode("foo", <<>>),
              ClassDefNode("K", <<FunctionDefNode("method", <<>>)>>),
              AssignNode(<<TupleTarget(<<NameTarget("a"), NameTarget("b")>>)>>)>>]
      \* baz = 1 / obj.attr = 2 / if x: async def later(): ...
      [] id = "def_other" -> [outcome |-> "tree", tree |->
            <<AssignNode(<<NameTarget("baz")>>),
              AssignNode(<<AttributeTarget>>),
              OtherNode(<<AsyncFunctionDefNode("later", <<>>)>>)>>]

\* analyze with the parse failure swallowed: a text with a syntax error
\* yields empty facts instead of raising.
analyze_swallow(id) ==
    LET src == Source(id)
    IN  IF src.outcome \in {"tree", "SyntaxError"}
        THEN [raised |-> "none", facts |-> generic_visit(src.tree)]
        ELSE [raised |-> src.outcome, facts |-> NoFacts]

\* PythonFileAnalyzer.analyze: read, parse, visit.  The facts of the file,
\* or the exception that read_text or ast.parse raised.
analyze(id) ==
    LET src == Source(id)
    IN  IF src.outcome = "tree"
        THEN [raised |-> "none", facts |-> generic_visit(src.tree)]
        ELSE [raised |-> src.outcome, facts |-> NoFacts]

(***************************************************************************)
(* The file tree.  disk maps every entry of a bounded universe to what it  *)
(* holds: "absent", "dir" (a directory), "data" (a file that is not        *)
(* Python) or the identifier of a Python text.  A directory also exists    *)
(* when an entry below it does.                                            *)
(***************************************************************************)

\* LinterManager.root_path
root_path == <<"proj">>

F_app == <<"proj", "app.py">>
F_helper == <<"proj", "helper.py">>
F_notes == <<"proj", "notes.txt">>
F_mod == <<"proj", "pkg", "mod.py">>
F_foo == <<"proj", "pkg", "mod", "foo.py">>
F_bar_init == <<"proj", "pkg", "mod", "bar", "__init__.py">>
F_build_init == <<"proj", "build", "lib", "__init__.py">>
D_bar == <<"proj", "pkg", "mod", "bar">>

\* sys.platform of the host.
platform == "linux"

\* VirtualEnvChecker.VENV_INDICATORS
VENV_INDICATORS ==
    [p \in {"linux", "linux2", "darwin", "win32"} |->
        IF p = "win32" THEN {"Scripts", "Include", "Lib", "pyvenv.cfg"}
        ELSE {"bin", "include", "lib", "pyvenv.cfg"}]

\* The entries that make D_bar look like a virtual environment.
MarkerEntries == {D_bar \o <<m>> : m \in VENV_INDICATORS["linux"]}

PyFiles == {F_app, F_helper, F_mod, F_foo, F_bar_init, F_build_init}

Entries == PyFiles \cup {F_notes} \cup MarkerEntries

\* The file names that end with ".py".
Stems == {"app", "helper", "mod", "foo", "__init__"}
endswith_py(name) == \E stem \in Stems : name = stem \o ".py"

\* path is p or a proper ancestor of p.
IsPrefix(path, p) ==
    Len(path) <= Len(p) /\ SubSeq(p, 1, Len(path)) = path

\* Path.is_dir
is_dir(d, path) ==
    /\ d[root_path] = "dir"
    /\ \/ path = root_path
       \/ \E e \in Entries :
            /\ d[e] # "absent"
            /\ IsPrefix(path, e)
            /\ (e = path => d[e] = "dir")

\* Path.is_file
is_file(d, path) ==
    IF path = root_path THEN d[root_path] \notin {"absent", "dir"}
    ELSE /\ d[root_path] = "dir"
         /\ path \in Entries
         /\ d[path] \notin {"absent", "dir"}

\* Path.exists
exists(d, path) == is_dir(d, path) \/ is_file(d, path)

\* The names os.walk lists in a directory: (dirnames, filenames).
dirnames(d, dir) ==
    {e[Len(dir) + 1] : e \in {x \in Entries :
        /\ Len(x) > Len(dir)
        /\ IsPrefix(dir, x)
        /\ is_dir(d, SubSeq(x, 1, Len(dir) + 1))}}

filenames(d, dir) ==
    {e[Len(dir) + 1] : e \in {x \in Entries :
        /\ Len(x) = Len(dir) + 1
        /\ IsPrefix(dir, x)
        /\ is_file(d, x)}}

\* VirtualEnvChecker.is_venv
is_venv(d, path) ==
    IF ~is_dir(d, path) THEN FALSE
    ELSE LET indicators ==
               IF platform \in DOMAIN VENV_INDICATORS
               THEN VENV_INDICATORS[platform] ELSE {}
         IN  IF indicators = {}
             THEN exists(d, path \o <<"pyvenv.cfg">>)
             ELSE \A ind \in indicators : exists(d, path \o <<ind>>)

\* LinterManager.DEFAULT_EXCLUDED_DIRS
DEFAULT_EXCLUDED_DIRS ==
    {"__pycache__", ".git", ".gitlab", ".github", ".idea", ".venv", "venv",
     "env", ".env", "node_modules", "build", "dist", ".eggs", "*.egg-info",
     "alembic", "migrations"}

\* LinterManager.excluded_dirs after __init__ with excluded_dirs=None.
excluded_dirs == DEFAULT_EXCLUDED_DIRS

\* Every sequence that lists the elements of S once.
RECURSIVE Perms(_)
Perms(S) ==
    IF S = {} THEN {<<>>}
    ELSE UNION {{<<x>> \o rest : rest \in Perms(S \ {x})} : x \in S}

\* _analyze_directory: the orders in which os.walk (top-down) can hand the
\* .py files to _analyze_file: the files of a directory in listing order,
\* then the kept sub-directories one after the other.
RECURSIVE WalkDir(_, _)
RECURSIVE WalkDirs(_, _)
WalkDir(d, dir) ==
    LET kept == {dir \o <<n>> : n \in {x \in dirnames(d, dir) :
                    x \notin excluded_dirs /\ ~is_venv(d, dir \o <<x>>)}}
        files == {dir \o <<n>> : n \in {x \in filenames(d, dir) : endswith_py(x)}}
    IN  {fs \o rest : fs \in Perms(files),
                      rest \in UNION {WalkDirs(d, ds) : ds \in Perms(kept)}}

WalkDirs(d, dirs) ==
    IF dirs = <<>> THEN {<<>>}
    ELSE {a \o b : a \in WalkDir(d, dirs[1]), b \in WalkDirs(d, Tail(dirs))}

\* _collect_files: the files handed to _analyze_file, in order.
collect_orders(d) ==
    IF is_file(d, root_path) THEN {<<root_path>>}
    ELSE IF is_dir(d, root_path) THEN WalkDir(d, root_path)
    ELSE {<<>>}

(***************************************************************************)
(* dict: an insertion-ordered sequence of [key, val] entries.              *)
(***************************************************************************)

Keys(dict) == {dict[i].key : i \in 1..Len(dict)}

\* key in dict
DictHas(dict, key) == key \in Keys(dict)

\* dict[key]
DictGet(dict, key) ==
    dict[CHOOSE i \in 1..Len(dict) : dict[i].key = key].val

\* dict[key] = val: a known key keeps its position.
DictSet(dict, key, val) ==
    IF DictHas(dict, key)
    THEN [i \in 1..Len(dict) |->
            IF dict[i].key = key THEN [key |-> key, val |-> val] ELSE dict[i]]
    ELSE Append(dict, [key |-> key, val |-> val])

(***************************************************************************)
(* The external provider: importlib.import_module and hasattr, answered by *)
(* the host's runtime.  An oracle is the runtime's answer to one call.     *)
(***************************************************************************)

\* import_module returns the module, or raises ModuleNotFoundError, another
\* Exception, or (when the imported module's code exits or is interrupted)
\* a BaseException that is not an Exception.
ImportOutcomes == {"module", "ModuleNotFoundError", "Exception", "BaseException"}

Oracles == [import : ImportOutcomes, hasattr : BOOLEAN]

\* str(file_path)
PathStr(path) == Join(path, "/")

\* validate_import(dotted_path, source_file): the error message or None
\* (<<>>), the exception that escapes, and what was asked of the runtime.
validate_import(dotted_path, source_file, o) ==
    LET dotted == \E i \in 1..Len(dotted_path) : dotted_path[i] = "."
        module_path == IF dotted THEN RSplit1(dotted_path)[1] ELSE dotted_path
        attr_name == IF dotted THEN RSplit1(dotted_path)[2] ELSE <<>>
        ctx == IF source_file # <<>> THEN <<" in ">> \o source_file ELSE <<>>
        asked_import == {[kind |-> "import", q |-> module_path, ans |-> o.import]}
        asked_attr ==
            {[kind |-> "hasattr", q |-> dotted_path,
              ans |-> IF o.hasattr THEN "True" ELSE "False"]}
    IN  IF dotted_path = <<>>
        THEN [raised |-> "none", error |-> <<"Empty import path">>, asked |-> {}]
        ELSE CASE o.import = "module" ->
                    IF attr_name # <<>> /\ ~o.hasattr
                    THEN [raised |-> "none",
                          error |-> <<"Module '">> \o module_path
                                    \o <<"' has no attribute '">> \o attr_name
                                    \o <<"'">> \o ctx,
                          asked |-> asked_import \cup asked_attr]
                    ELSE [raised |-> "none", error |-> <<>>,
                          asked |-> IF attr_name # <<>>
                                    THEN asked_import \cup asked_attr
                                    ELSE asked_import]
               [] o.import = "ModuleNotFoundError" ->
                    [raised |-> "none",
                     error |-> <<"Module not found: '">> \o module_path
                               \o <<"'">> \o ctx \o <<" (", "err", ")">>,
                     asked |-> asked_import]
               [] o.import = "Exception" ->
                    [raised |-> "none",
                     error |-> <<"Import error for '">> \o dotted_path
                               \o <<"': ", "err">>,
                     asked |-> asked_import]
               [] OTHER ->
                    [raised |-> "BaseException", error |-> <<>>,
                     asked |-> asked_import]

(***************************************************************************)
(* LinterManager._check_import                                             *)
(***************************************************************************)

\* ImportIssue(file, import_path, message, issue_type)
ImportIssue(file, import_path, message, issue_type) ==
    [file |-> file, import_path |-> import_path, message |-> message,
     issue_type |-> issue_type]

\* Path + str: pathlib defines no addition, so the expression raises.
PathAdd(path, s) == [raised |-> "TypeError", value |-> <<>>]

\* What one call of _check_import does: the exception that escapes it, the
\* issue it returns (<<>> for None, else <<issue>>), the branch that decided
\* (stage), whether validate_import was called and with what, the keys it
\* looked up in the index, the paths it tested on disk, and what it asked
\* of the runtime.
Outcome(raised, issue, stage, provider, index_reads, disk_reads, asked) ==
    [raised |-> raised, issue |-> issue, stage |-> stage,
     provider |-> provider, index_reads |-> index_reads,
     disk_reads |-> disk_reads, asked |-> asked]

\* Lines 202-212: the external check.
external_check(file_path, import_path, o, index_reads, disk_reads) ==
    LET v == validate_import(import_path, PathStr(file_path), o)
        call == <<[dotted_path |-> import_path, source_file |-> PathStr(file_path)]>>
    IN  IF v.raised # "none"
        THEN Outcome(v.raised, <<>>, "external", call, index_reads, disk_reads, v.asked)
        ELSE IF v.error # <<>>
        THEN Outcome("none",
                     <<ImportIssue(file_path, import_path, v.error, "EXTERNAL")>>,
                     "external", call, index_reads, disk_reads, v.asked)
        ELSE Outcome("none", <<>>, "external", call, index_reads, disk_reads, v.asked)

\* Line 181 with a test that matches whatever the index holds.
always_match(fi, possible_file) == TRUE

\* Line 181 with a test that never matches.
never_match(fi, possible_file) == FALSE

\* Line 181: possible_file in self.file_imports
module_file_match(fi, possible_file) == DictHas(fi, possible_file)

\* Line 186 with the index consulted instead of the disk.
package_in_index(fi, d, possible_init) == DictHas(fi, possible_init)

\* Line 186: possible_file.exists()
package_match(fi, d, possible_init) == exists(d, possible_init)

\* _check_import without the local steps: every path goes to the provider.
external_only(file_path, import_path, fi, md, d, o) ==
    external_check(file_path, import_path, o, {}, {})

\* _check_import that first looks for <root>/<path>.py in the index, also
\* for a path without a dot.
local_first(file_path, import_path, fi, md, d, o) ==
    LET parts == Split(import_path, ".")
        whole_file == PathDiv(PathDiv(root_path, Join(AllButLast(parts), "/")),
                              <<Last(parts) \o ".py">>)
    IN  IF DictHas(fi, whole_file)
        THEN Outcome("none", <<>>, "module_file", <<>>, {whole_file}, {}, {})
        ELSE external_check(file_path, import_path, o, {whole_file}, {})

_check_import(file_path, import_path, fi, md, d, o) ==
    LET parts == Split(import_path, ".")
        attr_name == Last(parts)
        module_parts == AllButLast(parts)
        module_dir == PathDiv(root_path, Join(module_parts, "/"))
        possible_file == PathDiv(module_dir, <<attr_name \o ".py">>)
        possible_init ==
            PathDiv(PathDiv(root_path, Join(module_parts \o <<attr_name>>, "/")),
                    <<"__init__.py">>)
        module_file == PathAdd(module_dir, ".py")
    IN  IF parts = <<>>
        THEN Outcome("none", <<>>, "no_parts", <<>>, {}, {}, {})
        ELSE IF module_parts # <<>>
        THEN IF module_file_match(fi, possible_file)
             THEN Outcome("none", <<>>, "module_file", <<>>, {possible_file}, {}, {})
             ELSE IF package_match(fi, d, possible_init)
             THEN Outcome("none", <<>>, "package", <<>>,
                          {possible_file}, {possible_init}, {})
             ELSE IF module_file.raised # "none"
             THEN Outcome(module_file.raised, <<>>, "module_path", <<>>,
                          {possible_file}, {possible_init}, {})
             ELSE IF DictHas(md, module_file.value)
             THEN IF attr_name \notin DictGet(md, module_file.value)
                  THEN Outcome("none",
                         <<ImportIssue(file_path, import_path,
                             <<"'">> \o Join(module_parts, ".")
                               \o <<"' does not define '", attr_name, "'">>,
                             "UNDEFINED")>>,
                         "attribute", <<>>,
                         {possible_file, module_file.value}, {possible_init}, {})
                  ELSE Outcome("none", <<>>, "attribute", <<>>,
                         {possible_file, module_file.value}, {possible_init}, {})
             ELSE external_check(file_path, import_path, o,
                                 {possible_file, module_file.value}, {possible_init})
        ELSE external_check(file_path, import_path, o, {}, {})

(***************************************************************************)
(* The state: the file tree and the runtime (the environment), one         *)
(* LinterManager, and the position of the run() in progress.               *)
(***************************************************************************)

VARIABLES
    disk,          \* the file tree: entry -> what it holds
    runtime,       \* the answers the runtime has given, which it repeats
    module_defs,   \* LinterManager.module_defs: dict Path -> set of names
    file_imports,  \* LinterManager.file_imports: dict Path -> set of paths
    issues,        \* LinterManager.issues: list of ImportIssue
    pc,            \* "idle", or the phase of run(): "collect", "validate"
    walk,          \* the files this run's _collect_files visits, in order
    wi,            \* how many of them _analyze_file has handled
    vi,            \* _validate_imports: index of the current file
    vrem,          \* _validate_imports: its imports not yet checked
    checked,       \* this run's _check_import calls and what each did
    result,        \* how the latest run() ended
    runs,          \* the number of run() calls made
    edited,        \* whether the tree has changed since construction
    tree,          \* one ImportsVisitor: the module body it is given
    pending,       \* the nodes it has yet to visit, in visiting order
    facts          \* its imported_modules and module_defs so far

vars == <<disk, runtime, module_defs, file_imports, issues, pc, walk, wi,
          vi, vrem, checked, result, runs, edited, tree, pending, facts>>

\* The variables of the one visitor that is followed node by node.
visitor_vars == <<tree, pending, facts>>

\* The number of run() calls on the one manager.
MaxRuns == 2

\* The trees a first run() can meet.  With a directory as root: app.py
\* holds one of the import texts, pkg/mod.py and helper.py are present or
\* not; pkg/mod/foo.py is present or not where app.py imports pkg.mod.foo,
\* and pkg/mod/bar is absent, a package, a package that does not parse or a
\* package that looks like a virtual environment where app.py imports
\* pkg.mod.bar; build/lib/__init__.py and notes.txt are there.
AppTexts == {"syntax_error", "import_foo", "import_itertools",
             "import_helper", "import_os_and_bar", "import_build_lib",
             "import_star"}
ModTexts == {"absent", "syntax_error", "def_foo", "def_other"}
BarShapes == {"absent", "package", "broken_package", "venv"}

DirTree(app, helper, mod, foo, bar) ==
    [e \in Entries \cup {root_path} |->
        CASE e = root_path -> "dir"
          [] e = F_app -> app
          [] e = F_helper -> helper
          [] e = F_notes -> "data"
          [] e = F_mod -> mod
          [] e = F_foo -> foo
          [] e = F_bar_init ->
                (CASE bar = "absent" -> "absent"
                   [] bar = "broken_package" -> "syntax_error"
                   [] OTHER -> "empty")
          [] e = F_build_init -> "empty"
          [] OTHER ->
                IF bar # "venv" THEN "absent"
                ELSE IF e[Len(e)] = "pyvenv.cfg" THEN "data" ELSE "dir"]

\* A root that is one file, or no root at all.
LoneTree(root) ==
    [e \in Entries \cup {root_path} |-> IF e = root_path THEN root ELSE "absent"]

Shapes ==
    {s \in [app : AppTexts, helper : {"absent", "empty", "import_os_and_helper"},
            mod : ModTexts, foo : {"absent", "empty"}, bar : BarShapes] :
        /\ s.helper = "import_os_and_helper" => s.app = "import_helper"
        /\ s.foo # "absent" => s.app = "import_foo"
        /\ s.bar # "absent" => s.app = "import_os_and_bar"}

Trees ==
    {DirTree(s.app, s.helper, s.mod, s.foo, s.bar) : s \in Shapes}
    \cup {LoneTree(root) : root \in {"absent", "import_helper", "not_utf8"}}

\* LinterManager.__init__, on some tree.
Init ==
    /\ disk \in Trees
    /\ runtime = {}
    /\ module_defs = <<>>
    /\ file_imports = <<>>
    /\ issues = <<>>
    /\ pc = "idle"
    /\ walk = <<>>
    /\ wi = 0
    /\ vi = 0
    /\ vrem = {}
    /\ checked = <<>>
    /\ result = "none"
    /\ runs = 0
    /\ edited = FALSE
    /\ tree = <<>>
    /\ pending = <<>>
    /\ facts = NoFacts

(***************************************************************************)
(* run()                                                                   *)
(***************************************************************************)

\* run() that clears the index and the issues before it tests the root.
run_raise_reset ==
    /\ pc = "idle"
    /\ runs < MaxRuns
    /\ ~exists(disk, root_path)
    /\ result' = "FileNotFoundError"
    /\ runs' = runs + 1
    /\ module_defs' = <<>>
    /\ file_imports' = <<>>
    /\ issues' = <<>>
    /\ UNCHANGED <<disk, runtime, pc, walk, wi, vi, vrem, checked, edited>>
    /\ UNCHANGED visitor_vars

\* run(), lines 101-102: the root does not exist.
run_raise ==
    /\ pc = "idle"
    /\ runs < MaxRuns
    /\ ~exists(disk, root_path)
    /\ result' = "FileNotFoundError"
    /\ runs' = runs + 1
    /\ UNCHANGED <<disk, runtime, module_defs, file_imports, issues, pc,
                   walk, wi, vi, vrem, checked, edited>>
    /\ UNCHANGED visitor_vars

\* run(), lines 101-104: the root exists; _collect_files starts its walk.
run_begin ==
    /\ pc = "idle"
    /\ runs < MaxRuns
    /\ exists(disk, root_path)
    /\ \E w \in collect_orders(disk) : walk' = w
    /\ wi' = 0
    /\ pc' = "collect"
    /\ checked' = <<>>
    /\ result' = "running"
    /\ runs' = runs + 1
    /\ UNCHANGED <<disk, runtime, module_defs, file_imports, issues, vi, vrem,
                   edited>>
    /\ UNCHANGED visitor_vars

\* _analyze_file on the next file of the walk.
_analyze_file ==
    /\ pc = "collect"
    /\ wi < Len(walk)
    /\ LET file_path == walk[wi + 1]
           analyzer == analyze(disk[file_path])
       IN  IF analyzer.raised = "none"
           THEN /\ file_imports' =
                     DictSet(file_imports, file_path, analyzer.facts.imported_modules)
                /\ module_defs' =
                     DictSet(module_defs, file_path, analyzer.facts.module_defs)
           ELSE UNCHANGED <<file_imports, module_defs>>
    /\ wi' = wi + 1
    /\ UNCHANGED <<disk, runtime, issues, pc, walk, vi, vrem, checked,
                   result, runs, edited>>
    /\ UNCHANGED visitor_vars

\* The first file at or after index i of the dict that has imports left to
\* check, Len + 1 when there is none.
NextFile(dict, i) ==
    IF \E j \in i..Len(dict) : dict[j].val # {}
    THEN CHOOSE j \in i..Len(dict) :
            /\ dict[j].val # {}
            /\ \A k \in i..(j - 1) : dict[k].val = {}
    ELSE Len(dict) + 1

\* The imports of the file at index i.
ImportsAt(dict, i) == IF i <= Len(dict) THEN dict[i].val ELSE {}

\* _validate_imports started while files of the walk are still to analyse.
_validate_early ==
    /\ pc = "collect"
    /\ pc' = "validate"
    /\ vi' = NextFile(file_imports, 1)
    /\ vrem' = ImportsAt(file_imports, NextFile(file_imports, 1))
    /\ UNCHANGED <<disk, runtime, module_defs, file_imports, issues, walk,
                   wi, checked, result, runs, edited>>
    /\ UNCHANGED visitor_vars

\* run(), line 105: the walk is over; _validate_imports starts.
_validate_imports ==
    /\ pc = "collect"
    /\ wi = Len(walk)
    /\ pc' = "validate"
    /\ vi' = NextFile(file_imports, 1)
    /\ vrem' = ImportsAt(file_imports, NextFile(file_imports, 1))
    /\ UNCHANGED <<disk, runtime, module_defs, file_imports, issues, walk,
                   wi, checked, result, runs, edited>>
    /\ UNCHANGED visitor_vars

\* The runtime repeats an answer it has given.
Consistent(o, dotted_path) ==
    LET asked == validate_import(dotted_path, <<>>, o).asked
    IN  \A a \in asked : \A r \in runtime :
            (r.kind = a.kind /\ r.q = a.q) => r.ans = a.ans

\* The answer of the runtime when nothing is asked of it.
NoAnswer == [import |-> "module", hasattr |-> TRUE]

\* The oracle o stands for the runtime in a call of _check_import on the
\* path: an answer that is asked for is one the runtime can give, and an
\* answer that is not asked for is NoAnswer's, so that each behaviour of
\* the runtime is drawn once.
Asked(o, dotted_path, called) ==
    IF ~called THEN o = NoAnswer
    ELSE /\ Consistent(o, dotted_path)
         /\ (\A a \in validate_import(dotted_path, <<>>, o).asked :
                a.kind # "hasattr") => o.hasattr = NoAnswer.hasattr

\* The issue put in front of the list instead of at its end.
record_issue_first(list, issue) == issue \o list

\* _validate_imports, lines 156-157: an issue that _check_import returned
\* (<<>> when it returned None) is appended to self.issues.
record_issue(list, issue) == list \o issue

\* One turn of the loops of _validate_imports: _check_import on the next
\* import of the current file, and the append of its issue.  An exception
\* leaves run().
check_next ==
    /\ pc = "validate"
    /\ vi <= Len(file_imports)
    /\ \E imp \in vrem : \E o \in Oracles :
        \E r \in {_check_import(file_imports[vi].key, imp, file_imports,
                                 module_defs, disk, o)} :
        /\ Asked(o, imp, r.provider # <<>>)
        /\ LET entry == [file |-> file_imports[vi].key, import_path |-> imp,
                         stage |-> r.stage, issue |-> r.issue,
                         provider |-> r.provider, raised |-> r.raised,
                         index_reads |-> r.index_reads,
                         disk_reads |-> r.disk_reads]
           IN  /\ checked' = Append(checked, entry)
               /\ runtime' = runtime \cup r.asked
               /\ IF r.raised # "none"
                  THEN /\ pc' = "idle"
                       /\ result' = r.raised
                       /\ UNCHANGED <<issues, vi, vrem>>
                  ELSE /\ issues' = record_issue(issues, r.issue)
                       /\ IF vrem \ {imp} # {}
                          THEN /\ vrem' = vrem \ {imp}
                               /\ vi' = vi
                          ELSE /\ vi' = NextFile(file_imports, vi + 1)
                               /\ vrem' = ImportsAt(file_imports,
                                              NextFile(file_imports, vi + 1))
                       /\ UNCHANGED <<pc, result>>
    /\ UNCHANGED <<disk, module_defs, file_imports, walk, wi, runs, edited>>
    /\ UNCHANGED visitor_vars

\* run(), line 107: return self.issues.
run_return ==
    /\ pc = "validate"
    /\ vi > Len(file_imports)
    /\ pc' = "idle"
    /\ result' = "returned"
    /\ UNCHANGED <<disk, runtime, module_defs, file_imports, issues, walk,
                   wi, vi, vrem, checked, runs, edited>>
    /\ UNCHANGED visitor_vars

(***************************************************************************)
(* The environment: between two runs the tree may change, once in a        *)
(* behaviour.                                                              *)
(***************************************************************************)

CanEdit == pc = "idle" /\ runs >= 1 /\ runs < MaxRuns /\ ~edited

\* A Python file is deleted.
DeleteFile ==
    /\ CanEdit
    /\ \E f \in PyFiles :
        /\ is_file(disk, f)
        /\ disk' = [disk EXCEPT ![f] = "absent"]
    /\ edited' = TRUE
    /\ UNCHANGED <<runtime, module_defs, file_imports, issues, pc, walk, wi,
                   vi, vrem, checked, result, runs>>
    /\ UNCHANGED visitor_vars

\* A Python file that parsed is edited so that it no longer parses.
BreakFile ==
    /\ CanEdit
    /\ \E f \in PyFiles :
        /\ is_file(disk, f)
        /\ Source(disk[f]).outcome = "tree"
        /\ disk' = [disk EXCEPT ![f] = "syntax_error"]
    /\ edited' = TRUE
    /\ UNCHANGED <<runtime, module_defs, file_imports, issues, pc, walk, wi,
                   vi, vrem, checked, result, runs>>
    /\ UNCHANGED visitor_vars

\* The root is removed with everything below it.
DeleteRoot ==
    /\ CanEdit
    /\ exists(disk, root_path)
    /\ disk' = LoneTree("absent")
    /\ edited' = TRUE
    /\ UNCHANGED <<runtime, module_defs, file_imports, issues, pc, walk, wi,
                   vi, vrem, checked, result, runs>>
    /\ UNCHANGED visitor_vars

Next ==
    \/ run_raise
    \/ run_begin
    \/ _analyze_file
    \/ _validate_imports
    \/ check_next
    \/ run_return
    \/ DeleteFile
    \/ BreakFile
    \/ DeleteRoot

Spec == Init /\ [][Next]_vars

(***************************************************************************)
(* One ImportsVisitor followed node by node over a module body drawn from  *)
(* a bounded set of statements.  No manager runs meanwhile.                *)
(***************************************************************************)

\* The longest module body of plain statements, and the deepest nesting of
\* a statement inside definitions and compound statements.
MaxStatements == 2
MaxDepth == 2

\* The dots and the module of a from-import, as ast.parse gives them: the
\* module is what follows the dots, <<>> when nothing does.
FromHeads ==
    {[level |-> 0, module |-> Dotted(<<"utils">>)],
     [level |-> 1, module |-> Dotted(<<"utils">>)],
     [level |-> 0, module |-> Dotted(<<"pkg", "mod">>)],
     [level |-> 2, module |-> Dotted(<<"pkg", "mod">>)],
     [level |-> 1, module |-> <<>>],
     [level |-> 2, module |-> <<>>]}

FromNames == {<<"*">>, <<"helper">>, <<"config", "helper">>}

AssignTargets ==
    {<<NameTarget("x")>>,
     <<NameTarget("x"), NameTarget("y")>>,
     <<TupleTarget(<<NameTarget("a"), NameTarget("b")>>)>>,
     <<TupleTarget(<<NameTarget("a"), AttributeTarget>>)>>,
     <<TupleTarget(<<NameTarget("c"),
                     TupleTarget(<<NameTarget("d"), NameTarget("e")>>)>>)>>,
     <<ListTarget(<<NameTarget("a"), NameTarget("b")>>)>>,
     <<AttributeTarget>>,
     <<SubscriptTarget>>,
     <<NameTarget("x"), SubscriptTarget>>}

\* Statements without a body.
Leaves ==
    {ImportNode(<<Dotted(<<"os">>)>>),
     ImportNode(<<Dotted(<<"pkg", "mod">>), Dotted(<<"helper">>)>>)}
    \cup {RelativeImportFromNode(h.level, h.module, names) :
             h \in FromHeads, names \in FromNames}
    \cup {AssignNode(targets) : targets \in AssignTargets}
    \cup {FunctionDefNode("f", <<>>), AsyncFunctionDefNode("g", <<>>),
          ClassDefNode("K", <<>>), OtherNode(<<>>)}

\* The statements put inside other statements.
Inner ==
    {FunctionDefNode("f", <<>>), AsyncFunctionDefNode("g", <<>>),
     ClassDefNode("K", <<>>), OtherNode(<<>>),
     AssignNode(<<NameTarget("x")>>),
     ImportFromNode(Dotted(<<"utils">>), <<"helper">>)}

WrapKinds == {"FunctionDef", "AsyncFunctionDef", "ClassDef", "Other"}

\* def outer(): body / async def aouter(): body / class Outer: body /
\* if cond: body
Wrap(kind, body) ==
    CASE kind = "FunctionDef" -> FunctionDefNode("outer", body)
      [] kind = "AsyncFunctionDef" -> AsyncFunctionDefNode("aouter", body)
      [] kind = "ClassDef" -> ClassDefNode("Outer", body)
      [] kind = "Other" -> OtherNode(body)

\* The statements nested at most depth deep around an inner statement.
RECURSIVE Nested(_)
Nested(depth) ==
    IF depth = 0 THEN Inner
    ELSE LET below == Nested(depth - 1)
         IN  below \cup {Wrap(kind, <<c>>) : kind \in WrapKinds, c \in below}

\* The module bodies the visitor is given.
VisitorTrees ==
    {<<n>> : n \in Nested(MaxDepth)}
    \cup UNION {[1..n -> Leaves] : n \in 0..MaxStatements}

\* ImportsVisitor(), PythonFileAnalyzer.analyze line 42, on a parsed text.
VisitorInit ==
    /\ disk = LoneTree("absent")
    /\ runtime = {}
    /\ module_defs = <<>>
    /\ file_imports = <<>>
    /\ issues = <<>>
    /\ pc = "idle"
    /\ walk = <<>>
    /\ wi = 0
    /\ vi = 0
    /\ vrem = {}
    /\ checked = <<>>
    /\ result = "none"
    /\ runs = 0
    /\ edited = FALSE
    /\ tree \in VisitorTrees
    /\ pending = tree
    /\ facts = NoFacts

\* NodeVisitor.visit on the next node: the visit_ method of its kind adds
\* to the two sets, then generic_visit visits its children before the
\* statements that follow it.
visit_next ==
    /\ pending # <<>>
    /\ facts' = Merge(facts, visitor(Head(pending)))
    /\ pending' = child_nodes(Head(pending)) \o Tail(pending)
    /\ UNCHANGED <<disk, runtime, module_defs, file_imports, issues, pc,
                   walk, wi, vi, vrem, checked, result, runs, edited, tree>>

VisitorNext == visit_next

VisitorSpec == VisitorInit /\ [][VisitorNext]_vars

(***************************************************************************)
(* Vocabulary of the properties.  A check step is a step of check_next;    *)
(* the entry it appends to checked describes the call.  During a check     *)
(* step the tree and the index do not change, so the unprimed disk,        *)
(* file_imports and module_defs are those the call saw.                    *)
(***************************************************************************)

CheckStep == pc = "validate" /\ Len(checked') = Len(checked) + 1

\* The identifiers of a dotted path; the last is the attribute.
Segments(p) == Split(p, ".")
HasModuleSegment(p) == Len(Segments(p)) > 1
ModuleSegments(p) == AllButLast(Segments(p))
Attribute(p) == Last(Segments(p))

\* <root>/<module segments>/<attribute>.py
ModuleFileOf(p) == root_path \o ModuleSegments(p) \o <<Attribute(p) \o ".py">>
\* <root>/<module segments>/<attribute>/__init__.py
PackageInitOf(p) == root_path \o Segments(p) \o <<"__init__.py">>
\* <root>/<module segments>.py
ModulePyOf(p) ==
    root_path \o AllButLast(ModuleSegments(p))
              \o <<Last(ModuleSegments(p)) \o ".py">>

\* The file is on disk.
OnDisk(path) ==
    /\ disk[root_path] = "dir"
    /\ path \in Entries
    /\ disk[path] \notin {"absent", "dir"}

LocalModuleFile(p) == HasModuleSegment(p) /\ ModuleFileOf(p) \in Keys(file_imports)
LocalPackage(p) == HasModuleSegment(p) /\ OnDisk(PackageInitOf(p))
IndexedModule(p) == HasModuleSegment(p) /\ ModulePyOf(p) \in Keys(module_defs)

\* Steps 2 and 3 do not match and <root>/<module segments>.py is indexed.
AttributeCase(p) ==
    /\ HasModuleSegment(p)
    /\ ~LocalModuleFile(p)
    /\ ~LocalPackage(p)
    /\ IndexedModule(p)

\* C1: a path whose module file is indexed and defines the attribute is
\* checked without an exception and without an issue.
C1_AttributeDefined ==
    [][(CheckStep /\ AttributeCase(checked'[Len(checked')].import_path)
          /\ Attribute(checked'[Len(checked')].import_path)
                \in DictGet(module_defs, ModulePyOf(checked'[Len(checked')].import_path)))
       => /\ checked'[Len(checked')].raised = "none"
          /\ checked'[Len(checked')].issue = <<>>
          /\ issues' = issues]_vars

\* C2: a path whose module file is indexed and does not define the
\* attribute yields exactly one issue, UNDEFINED, with the message
\* '<dotted module path>' does not define '<attribute>'.
C2_AttributeUndefined ==
    [][(CheckStep /\ AttributeCase(checked'[Len(checked')].import_path)
          /\ Attribute(checked'[Len(checked')].import_path)
                \notin DictGet(module_defs, ModulePyOf(checked'[Len(checked')].import_path)))
       => LET c == checked'[Len(checked')]
              issue == ImportIssue(c.file, c.import_path,
                          <<"'">> \o Dotted(ModuleSegments(c.import_path))
                            \o <<"' does not define '", Attribute(c.import_path), "'">>,
                          "UNDEFINED")
          IN  /\ c.raised = "none"
              /\ c.issue = <<issue>>
              /\ issues' = Append(issues, issue)]_vars

\* No local step matches: the path is left to the external check.
ExternalCase(p) == ~LocalModuleFile(p) /\ ~LocalPackage(p) /\ ~IndexedModule(p)

\* What validate_import hands to import_module for the path.
ModulePathOf(p) == IF HasModuleSegment(p) THEN Dotted(ModuleSegments(p)) ELSE p

\* The runtime's answer to a query, "unasked" when it was never asked.
Answer(rt, kind, q) ==
    IF \E r \in rt : r.kind = kind /\ r.q = q
    THEN (CHOOSE r \in rt : r.kind = kind /\ r.q = q).ans
    ELSE "unasked"

\* The provider's outcome for a path, in the words of the specification.
ProviderOutcome(rt, p) ==
    LET imp == Answer(rt, "import", ModulePathOf(p))
    IN  CASE imp = "module" ->
               IF HasModuleSegment(p) /\ Answer(rt, "hasattr", p) = "False"
               THEN "ATTRIBUTE-NOT-FOUND" ELSE "RESOLVED"
          [] imp = "ModuleNotFoundError" -> "MODULE-NOT-FOUND"
          [] imp = "Exception" -> "OTHER-ERROR"
          [] imp = "BaseException" -> "RAISED"
          [] OTHER -> "unasked"

\* The message validate_import builds from the runtime's answers.
ProviderMessage(rt, file, p) ==
    validate_import(p, PathStr(file),
        [import |-> Answer(rt, "import", ModulePathOf(p)),
         hasattr |-> Answer(rt, "hasattr", p) = "True"]).error

\* C3: a path that no local step matches, single-segment or dotted, is
\* handed to validate_import in full; MODULE-NOT-FOUND, ATTRIBUTE-NOT-FOUND
\* and OTHER-ERROR yield one EXTERNAL issue with the provider's message, and
\* RESOLVED yields none.
C3_ExternalCheck ==
    [][(CheckStep /\ ExternalCase(checked'[Len(checked')].import_path))
       => LET c == checked'[Len(checked')]
              outcome == ProviderOutcome(runtime', c.import_path)
              issue == ImportIssue(c.file, c.import_path,
                          ProviderMessage(runtime', c.file, c.import_path),
                          "EXTERNAL")
          IN  /\ c.provider = <<[dotted_path |-> c.import_path,
                                 source_file |-> PathStr(c.file)]>>
              /\ outcome \in {"MODULE-NOT-FOUND", "ATTRIBUTE-NOT-FOUND", "OTHER-ERROR"}
                    => c.issue = <<issue>> /\ issues' = Append(issues, issue)
              /\ outcome = "RESOLVED" => c.issue = <<>> /\ issues' = issues]_vars

\* C4: a run ends by returning the issue list, or with FileNotFoundError
\* for a missing root; nothing else makes it abort (an exception that the
\* runtime raises inside the provider aside).
C4_RunCompletes ==
    (pc = "idle" /\ runs > 0 /\ result # "BaseException")
        => result \in {"returned", "FileNotFoundError"}

\* A step of _analyze_file.
AnalyzeStep == pc = "collect" /\ wi' = wi + 1

\* The text of the file parses.
Parses(f) == Source(disk[f]).outcome = "tree"

\* The files of this run's walk that parse.
ParsedOfWalk == {f \in Range(walk) : Parses(f)}

\* C5: _analyze_file on a file with a syntax error adds no entry to either
\* dict and raises nothing; the walk goes on, every file of it that parses
\* is indexed with its facts, and a run that started with an empty index
\* ends its walk with exactly the files that parsed.
C5_ParseFailureRecovered ==
    /\ [][(AnalyzeStep /\ Source(disk[walk[wi + 1]]).outcome = "SyntaxError")
          => /\ file_imports' = file_imports
             /\ module_defs' = module_defs
             /\ pc' = "collect"
             /\ result' = result]_vars
    /\ [](pc = "validate" =>
            \A f \in ParsedOfWalk :
                /\ f \in Keys(file_imports) /\ f \in Keys(module_defs)
                /\ DictGet(file_imports, f)
                     = generic_visit(Source(disk[f]).tree).imported_modules
                /\ DictGet(module_defs, f)
                     = generic_visit(Source(disk[f]).tree).module_defs)
    /\ []((pc = "validate" /\ runs = 1) =>
            /\ Keys(file_imports) = ParsedOfWalk
            /\ Keys(module_defs) = ParsedOfWalk)

\* C5 witness: the walk is over, a file of it had a syntax error and a
\* file that came later in the walk parsed.
C5_Witness ==
    /\ pc = "validate"
    /\ \E i, j \in 1..Len(walk) :
        /\ i < j
        /\ Source(disk[walk[i]]).outcome = "SyntaxError"
        /\ Parses(walk[j])
        /\ walk[j] \in Keys(file_imports)

\* C6: run() on a root that does not exist raises FileNotFoundError at
\* once: no file is analysed, no import checked, and file_imports,
\* module_defs and issues are what they were.
C6_RootNotFound ==
    [][(pc = "idle" /\ runs' = runs + 1 /\ disk[root_path] = "absent")
       => /\ result' = "FileNotFoundError"
          /\ pc' = "idle"
          /\ file_imports' = file_imports
          /\ module_defs' = module_defs
          /\ issues' = issues
          /\ UNCHANGED <<walk, wi, checked, runtime, disk>>]_vars

\* C6 witness: a run on a manager that holds an index and issues ended
\* with FileNotFoundError.
C6_Witness ==
    /\ result = "FileNotFoundError"
    /\ disk[root_path] = "absent"
    /\ file_imports # <<>>
    /\ module_defs # <<>>
    /\ issues # <<>>

\* C7: a path whose <root>/<module segments>/<attribute>.py is a key of the
\* index is VALID: no exception, no issue, no lookup of the module's
\* defined names, no call of the provider.
C7_ModuleFileFirst ==
    [][(CheckStep /\ LocalModuleFile(checked'[Len(checked')].import_path))
       => LET c == checked'[Len(checked')]
          IN  /\ c.raised = "none"
              /\ c.issue = <<>>
              /\ issues' = issues
              /\ c.stage = "module_file"
              /\ ModulePyOf(c.import_path) \notin c.index_reads
              /\ c.provider = <<>>
              /\ runtime' = runtime]_vars

\* C7 witness: such a path was found VALID while <root>/<module
\* segments>.py is indexed and does not define the attribute.
C7_Witness ==
    /\ pc = "validate"
    /\ \E i \in 1..Len(checked) :
        /\ LocalModuleFile(checked[i].import_path)
        /\ IndexedModule(checked[i].import_path)
        /\ Attribute(checked[i].import_path)
              \notin DictGet(module_defs, ModulePyOf(checked[i].import_path))
        /\ checked[i].issue = <<>>

\* C8: a path that is not a local module file and whose
\* <root>/<module segments>/<attribute>/__init__.py is on disk is VALID: no
\* exception, no issue, no call of the provider.
C8_PackageMatch ==
    [][(CheckStep /\ HasModuleSegment(checked'[Len(checked')].import_path)
          /\ ~LocalModuleFile(checked'[Len(checked')].import_path)
          /\ OnDisk(PackageInitOf(checked'[Len(checked')].import_path)))
       => LET c == checked'[Len(checked')]
          IN  /\ c.raised = "none"
              /\ c.issue = <<>>
              /\ issues' = issues
              /\ c.provider = <<>>]_vars

\* C8 witness: such a path was found VALID while its __init__.py is not in
\* the index and <root>/<module segments>.py is.
C8_Witness ==
    /\ pc = "validate"
    /\ \E i \in 1..Len(checked) :
        /\ ~LocalModuleFile(checked[i].import_path)
        /\ LocalPackage(checked[i].import_path)
        /\ PackageInitOf(checked[i].import_path) \notin Keys(file_imports)
        /\ IndexedModule(checked[i].import_path)
        /\ checked[i].issue = <<>>
        /\ checked[i].raised = "none"

\* C9: validate_import is not called for a path that matches a local
\* module file, a local package, or an indexed <root>/<module segments>.py,
\* whether or not that module defines the attribute.
C9_ProviderOnlyForNonLocal ==
    [][(CheckStep
          /\ \/ LocalModuleFile(checked'[Len(checked')].import_path)
             \/ LocalPackage(checked'[Len(checked')].import_path)
             \/ IndexedModule(checked'[Len(checked')].import_path))
       => /\ checked'[Len(checked')].provider = <<>>
          /\ runtime' = runtime]_vars

\* C9 witness: a path whose module file is indexed and lacks the attribute
\* was checked, and the provider was not called.
C9_Witness ==
    /\ pc = "idle"
    /\ ~edited
    /\ checked # <<>>
    /\ AttributeCase(checked[Len(checked)].import_path)
    /\ Attribute(checked[Len(checked)].import_path)
          \notin DictGet(module_defs, ModulePyOf(checked[Len(checked)].import_path))
    /\ checked[Len(checked)].provider = <<>>

\* C10: a path without a dot is decided by the provider alone: neither the
\* index nor the disk is consulted, validate_import gets the path, and the
\* result of the check is the one the runtime's answer determines.
C10_SingleSegmentExternal ==
    [][(CheckStep /\ ~HasModuleSegment(checked'[Len(checked')].import_path))
       => LET c == checked'[Len(checked')]
              outcome == ProviderOutcome(runtime', c.import_path)
              issue == ImportIssue(c.file, c.import_path,
                          ProviderMessage(runtime', c.file, c.import_path),
                          "EXTERNAL")
          IN  /\ c.index_reads = {}
              /\ c.disk_reads = {}
              /\ c.provider = <<[dotted_path |-> c.import_path,
                                 source_file |-> PathStr(c.file)]>>
              /\ outcome \in {"RESOLVED", "MODULE-NOT-FOUND", "OTHER-ERROR", "RAISED"}
              /\ outcome = "RESOLVED"
                    => c.raised = "none" /\ c.issue = <<>> /\ issues' = issues
              /\ outcome \in {"MODULE-NOT-FOUND", "OTHER-ERROR"}
                    => /\ c.raised = "none"
                       /\ c.issue = <<issue>>
                       /\ issues' = Append(issues, issue)
              /\ outcome = "RAISED" => c.raised = "BaseException"]_vars

\* C10 witness: a path without a dot got an EXTERNAL issue while
\* <root>/<path>.py is an indexed file.
C10_Witness ==
    /\ pc = "validate"
    /\ \E i \in 1..Len(checked) :
        /\ ~HasModuleSegment(checked[i].import_path)
        /\ root_path \o <<checked[i].import_path[1] \o ".py">> \in Keys(file_imports)
        /\ Len(checked[i].issue) = 1
        /\ checked[i].issue[1].issue_type = "EXTERNAL"

(***************************************************************************)
(* The issue list.                                                         *)
(***************************************************************************)

\* The issues of a log of _check_import calls, in the order of the calls.
RECURSIVE IssuesOf(_)
IssuesOf(log) ==
    IF log = <<>> THEN <<>> ELSE log[1].issue \o IssuesOf(Tail(log))

\* The position of a file in the iteration order of file_imports.
FilePos(f) == CHOOSE i \in 1..Len(file_imports) : file_imports[i].key = f

\* A run is past its collection: it is validating, or it has returned.
Validating == pc = "validate" \/ (pc = "idle" /\ result = "returned")

VisitOf(kind) == pending # <<>> /\ Head(pending).kind = kind

\* The visitor has visited the whole of a module body.
Visited == tree # <<>> /\ pending = <<>>

\* C12: visiting `from M import n1, n2, ...` adds, for each name, exactly
\* the path the rule gives: M for a star when M is named, nothing for a
\* star when it is not, M.n when M is named and n alone when it is not;
\* the dots in front of M play no part, and the defined names are as they
\* were.
C12_FromImportPaths ==
    [][VisitOf("ImportFrom")
       => LET node == Head(pending)
              M == node.module
              path(n) == IF n = "*" /\ M # <<>> THEN {M}
                         ELSE IF n = "*" THEN {}
                         ELSE IF M # <<>> THEN {M \o <<".", n>>}
                         ELSE {<<n>>}
          IN  /\ facts'.imported_modules
                    = facts.imported_modules
                        \cup UNION {path(n) : n \in Range(node.names)}
              /\ \A n \in Range(node.names) :
                    Cardinality(path(n)) = IF n = "*" /\ M = <<>> THEN 0 ELSE 1
              /\ facts'.module_defs = facts.module_defs]_vars

\* C12 witness: `from . import config, helper` then
\* `from .utils import helper` were visited and left config, helper and
\* utils.helper.
C12_Witness ==
    /\ Visited
    /\ tree = <<RelativeImportFromNode(1, <<>>, <<"config", "helper">>),
                RelativeImportFromNode(1, Dotted(<<"utils">>), <<"helper">>)>>
    /\ facts.imported_modules
         = {<<"config">>, <<"helper">>, <<"utils", ".", "helper">>}

\* The names the assignment rule of the claim gives one target: a simple
\* name, or the simple names among the elements of a tuple or list of
\* targets.
ClaimedTargetNames(target) ==
    IF target.kind = "Name" THEN {target.id}
    ELSE IF target.kind \in {"Tuple", "List"}
    THEN {e.id : e \in {x \in Range(target.elts) : x.kind = "Name"}}
    ELSE {}

\* C13: visiting an assignment adds to the defined names every target that
\* is a simple name and every simple-name element of every destructuring
\* target, adds nothing for attribute and subscript targets, and leaves the
\* imported paths as they were.
C13_AssignmentNames ==
    [][VisitOf("Assign")
       => LET node == Head(pending)
          IN  /\ facts'.module_defs
                    = facts.module_defs
                        \cup UNION {ClaimedTargetNames(t) :
                                      t \in Range(node.targets)}
              /\ facts'.imported_modules = facts.imported_modules]_vars

\* The names of the function, async function and class definitions of a
\* body, at every depth.
RECURSIVE DefinitionNames(_)
DefinitionNames(body) ==
    IF body = <<>> THEN {}
    ELSE (IF body[1].kind \in {"FunctionDef", "AsyncFunctionDef", "ClassDef"}
          THEN {body[1].name} ELSE {})
         \cup DefinitionNames(body[1].body)
         \cup DefinitionNames(Tail(body))

\* C14: once a module body is visited, the one flat set of defined names
\* holds the name of every function, async function and class definition
\* of it, however deep inside other definitions or statements.
C14_FlattenedScopes ==
    /\ pending = <<>> => DefinitionNames(tree) \subseteq facts.module_defs
    /\ DefinitionNames(tree) \subseteq generic_visit(tree).module_defs

\* C14 witness: class Outer: def outer(): async def g() was visited.
C14_Witness ==
    /\ Visited
    /\ tree = <<ClassDefNode("Outer",
                  <<FunctionDefNode("outer",
                      <<AsyncFunctionDefNode("g", <<>>)>>)>>)>>
    /\ facts.module_defs = {"Outer", "outer", "g"}

\* C15: visiting a node of no contributing kind changes neither set, and
\* visiting an import or a from-import adds no defined name.
C15_ClosedKinds ==
    [][/\ (pending # <<>>
           /\ Head(pending).kind \notin
                 {"Import", "ImportFrom", "Assign", "FunctionDef",
                  "AsyncFunctionDef", "ClassDef"})
          => facts' = facts
       /\ (VisitOf("Import") \/ VisitOf("ImportFrom"))
          => facts'.module_defs = facts.module_defs]_vars

\* C15 witness: `import os` and a statement of no contributing kind were
\* visited; os is imported and no name is defined.
C15_Witness ==
    /\ Visited
    /\ tree = <<ImportNode(<<Dotted(<<"os">>)>>), OtherNode(<<>>)>>
    /\ facts = [imported_modules |-> {Dotted(<<"os">>)}, module_defs |-> {}]

(***************************************************************************)
(* Files that failed to parse.                                             *)
(***************************************************************************)

\* The file is on disk, does not parse, and is not in the index.
Skipped(f) == OnDisk(f) /\ ~Parses(f) /\ f \notin Keys(file_imports)

\* C16: no check is decided VALID or UNDEFINED by a file that failed to
\* parse and is absent from the index: neither the module file of step 2,
\* nor the package-init file of step 3, nor the module file of step 4.
C16_SkippedNeverMatched ==
    [][CheckStep
       => LET c == checked'[Len(checked')]
          IN  /\ c.stage = "module_file" => ~Skipped(ModuleFileOf(c.import_path))
              /\ c.stage = "package" => ~Skipped(PackageInitOf(c.import_path))
              /\ c.stage = "attribute" => ~Skipped(ModulePyOf(c.import_path))]_vars

\* C16, amended: no check is decided VALID or UNDEFINED by a module file
\* that failed to parse and is absent from the index (steps 2 and 4); a
\* package-init file in that condition still decides step 3, which finds
\* the import VALID because the file is on disk.
C16_SkippedModuleNeverMatched ==
    [][CheckStep
       => LET c == checked'[Len(checked')]
              p == c.import_path
          IN  /\ c.stage = "module_file" => ~Skipped(ModuleFileOf(p))
              /\ c.stage = "attribute" => ~Skipped(ModulePyOf(p))
              /\ (HasModuleSegment(p) /\ ~LocalModuleFile(p)
                    /\ Skipped(PackageInitOf(p)))
                   => /\ c.stage = "package"
                      /\ c.raised = "none"
                      /\ c.issue = <<>>]_vars

\* C16 witness: a path whose module file is on disk, failed to parse and
\* is not indexed was checked, and step 2 did not decide it.
C16_Witness ==
    /\ runs = 1 /\ pc = "idle"
    /\ \E i \in 1..Len(checked) :
        /\ HasModuleSegment(checked[i].import_path)
        /\ Skipped(ModuleFileOf(checked[i].import_path))
        /\ checked[i].stage # "module_file"
        /\ checked[i].issue = <<>>

(***************************************************************************)
(* Failures of the provider.                                               *)
(***************************************************************************)

\* C17: whatever the module lookup raises during a check that reaches the
\* provider, the check raises nothing, exactly one EXTERNAL issue is
\* appended for the pair, and the run goes on.
C17_ProviderFailuresContained ==
    [][(CheckStep /\ checked'[Len(checked')].provider # <<>>
          /\ Answer(runtime', "import",
                    ModulePathOf(checked'[Len(checked')].import_path))
                # "module")
       => LET c == checked'[Len(checked')]
          IN  /\ c.raised = "none"
              /\ Len(c.issue) = 1
              /\ c.issue[1].issue_type = "EXTERNAL"
              /\ c.issue[1].file = c.file
              /\ c.issue[1].import_path = c.import_path
              /\ issues' = Append(issues, c.issue[1])
              /\ pc' = "validate"]_vars

(***************************************************************************)
(* The phases of a run.                                                    *)
(***************************************************************************)

\* C18: an import is checked only when every file of the walk has been
\* handled by _analyze_file and every one that parses is indexed; no file is
\* analysed once a check of the run has been made; and from the first
\* check to the end of the run neither file_imports nor module_defs
\* changes.
C18_TwoPhase ==
    [][/\ CheckStep
          => /\ wi = Len(walk)
             /\ ParsedOfWalk \subseteq Keys(file_imports)
             /\ ParsedOfWalk \subseteq Keys(module_defs)
       /\ AnalyzeStep => checked = <<>>
       /\ (pc = "validate" /\ (checked # <<>> \/ CheckStep))
          => /\ file_imports' = file_imports
             /\ module_defs' = module_defs]_vars

\* C18 witness: two imports have been checked after a walk of two files or
\* more, both indexed.
C18_Witness ==
    /\ pc = "validate"
    /\ Len(walk) >= 2
    /\ Len(file_imports) >= 2
    /\ Len(checked) >= 2

(***************************************************************************)
(* One manager, several runs.                                              *)
(***************************************************************************)

\* C19: whatever runs came before and however the tree changed between
\* them, the index a run validates against holds exactly the files its own
\* walk found and parsed, each with the facts of its present text.
C19_NoFactsPersist ==
    pc = "validate"
       => /\ Keys(file_imports) = ParsedOfWalk
          /\ Keys(module_defs) = ParsedOfWalk
          /\ \A f \in ParsedOfWalk :
                /\ DictGet(file_imports, f)
                     = generic_visit(Source(disk[f]).tree).imported_modules
                /\ DictGet(module_defs, f)
                     = generic_visit(Source(disk[f]).tree).module_defs

\* C20: over an unchanged tree and runtime, the list a run returns holds
\* the issues that run found, at most one for each (file, import path)
\* pair, however many runs came before.
C20_EachFailingImportOnce ==
    (pc = "idle" /\ result = "returned" /\ ~edited)
       => /\ issues = IssuesOf(checked)
          /\ \A i, j \in 1..Len(issues) :
                (issues[i].file = issues[j].file
                   /\ issues[i].import_path = issues[j].import_path)
                  => i = j

====
